---- MODULE Spec2Model ----
(***************************************************************************)
(* git-bump: resolve the highest semantic-version tag of a repository,     *)
(* choose a bump level, confirm, create the tag and push it.               *)
(*                                                                         *)
(* Two workflows are modelled: the one main starts (run -> Config::bump -> *)
(* Bumper::bump, src/src/lib.rs) and the flag-driven one (_run,            *)
(* src/src/main.rs, with the public helpers of lib.rs).                    *)
(*                                                                         *)
(* The push is modelled with its credentials callback: the remote asks for *)
(* a credential, the callback answers, the push goes on with the answer.   *)
(* SpecCreateTag is create_tag called as a function of the library.        *)
(*                                                                         *)
(* Text is modelled as sequences of one-character strings, so that prefix  *)
(* stripping, trimming, case folding, parsing and formatting are computed  *)
(* character by character as the code does.                                *)
(***************************************************************************)
EXTENDS Integers, Sequences, FiniteSets, TLC

\* ------------------------------------------------------------------ bounds

\* width, in bits, of the unsigned integer holding major/minor/patch
\* (u64 in the semver crate, scaled down)
NumBits == 3
\* largest number of tags the repository holds when the run starts
MaxTags == 2
\* the number of bump-level prompts up to which the operator may still type
\* a line the prompt does not accept; the count of prompts stops there
MaxPrompts == 1
\* largest number of flags (--interactive, --major, --minor, --patch) given
MaxFlags == 2

Pow2(n) == 2 ^ n
MaxU64 == Pow2(NumBits) - 1

\* ------------------------------------------------------------ characters

DigitSeq == <<"0", "1", "2", "3", "4", "5", "6", "7", "8", "9">>
UpperSeq == <<"A", "B", "C", "D", "E", "F", "G", "H", "I", "J", "K", "L", "M",
              "N", "O", "P", "Q", "R", "S", "T", "U", "V", "W", "X", "Y", "Z">>
LowerSeq == <<"a", "b", "c", "d", "e", "f", "g", "h", "i", "j", "k", "l", "m",
              "n", "o", "p", "q", "r", "s", "t", "u", "v", "w", "x", "y", "z">>
\* the characters used, in ASCII order
AsciiSeq == <<"\n", " ", "*", "+", "-", ".">> \o DigitSeq \o UpperSeq \o LowerSeq

Range(f) == {f[i] : i \in DOMAIN f}
IndexOf(seq, c) == CHOOSE i \in DOMAIN seq : seq[i] = c

IsDigit(c) == c \in Range(DigitSeq)
IsUpper(c) == c \in Range(UpperSeq)
IsLower(c) == c \in Range(LowerSeq)
IsAlnum(c) == IsDigit(c) \/ IsUpper(c) \/ IsLower(c)
IsSpace(c) == c \in {" ", "\n"}
DigitVal(c) == IndexOf(DigitSeq, c) - 1
Code(c) == IndexOf(AsciiSeq, c)

\* a byte that is not part of any valid UTF-8 sequence
BadByte == "\\xFF"
\* git2 StringArray::iter yields None for a name that is not UTF-8
IsUtf8(s) == \A i \in DOMAIN s : s[i] # BadByte

\* char::to_ascii_lowercase, str::to_ascii_lowercase
CharLower(c) == IF IsUpper(c) THEN LowerSeq[IndexOf(UpperSeq, c)] ELSE c
ToAsciiLowercase(s) == [i \in DOMAIN s |-> CharLower(s[i])]

Drop(s, n) == SubSeq(s, n + 1, Len(s))
Take(s, n) == SubSeq(s, 1, n)
StartsWith(s, p) == Len(p) <= Len(s) /\ Take(s, Len(p)) = p

\* str::trim: whitespace removed at both ends
RECURSIVE TrimStart(_)
TrimStart(s) == IF s # <<>> /\ IsSpace(s[1]) THEN TrimStart(Drop(s, 1)) ELSE s
RECURSIVE TrimEnd(_)
TrimEnd(s) ==
    IF s # <<>> /\ IsSpace(s[Len(s)]) THEN TrimEnd(Take(s, Len(s) - 1)) ELSE s
Trim(s) == TrimEnd(TrimStart(s))

\* str::trim_start_matches(pat): every leading repetition of pat is removed
RECURSIVE TrimStartMatches(_, _)
TrimStartMatches(s, pat) ==
    IF pat # <<>> /\ StartsWith(s, pat)
    THEN TrimStartMatches(Drop(s, Len(pat)), pat)
    ELSE s

\* ------------------------------------------------------- numbers as text

\* str::parse::<u64>: the value of a run of digits, -1 when it overflows
RECURSIVE DigitsValue(_, _)
DigitsValue(s, acc) ==
    IF s = <<>> THEN acc
    ELSE IF acc * 10 + DigitVal(s[1]) > MaxU64 THEN -1
    ELSE DigitsValue(Drop(s, 1), acc * 10 + DigitVal(s[1]))
ParseU64(s) == DigitsValue(s, 0)

\* Display of an unsigned integer
RECURSIVE FmtU64(_)
FmtU64(n) ==
    IF n < 10 THEN <<DigitSeq[n + 1]>>
    ELSE FmtU64(n \div 10) \o <<DigitSeq[(n % 10) + 1]>>

RECURSIVE DigitRunLen(_)
DigitRunLen(s) == IF s # <<>> /\ IsDigit(s[1]) THEN 1 + DigitRunLen(Drop(s, 1)) ELSE 0

RECURSIVE MetaRunLen(_)
MetaRunLen(s) ==
    IF s # <<>> /\ (IsAlnum(s[1]) \/ s[1] \in {"-", "."})
    THEN 1 + MetaRunLen(Drop(s, 1))
    ELSE 0

\* str::split('.')
RECURSIVE SplitDots(_, _)
SplitDots(s, cur) ==
    IF s = <<>> THEN <<cur>>
    ELSE IF s[1] = "." THEN <<cur>> \o SplitDots(Drop(s, 1), <<>>)
    ELSE SplitDots(Drop(s, 1), Append(cur, s[1]))

RECURSIVE JoinDots(_)
JoinDots(parts) ==
    IF parts = <<>> THEN <<>>
    ELSE IF Len(parts) = 1 THEN parts[1]
    ELSE parts[1] \o <<".">> \o JoinDots(Drop(parts, 1))

\* ---------------------------------------------------------------- semver

NoVersion == [major |-> 0, minor |-> 0, patch |-> 0, pre |-> <<>>, build |-> <<>>]

\* semver::Identifier: Numeric(u64) | AlphaNumeric(String)
Numeric(n) == [kind |-> "Numeric", n |-> n, s |-> <<>>]
AlphaNumeric(s) == [kind |-> "AlphaNumeric", n |-> 0, s |-> s]

\* one dot-separated part of a pre-release or build string
ParseIdentifier(part) ==
    IF part # <<>> /\ (\A i \in DOMAIN part : IsDigit(part[i])) /\ ParseU64(part) >= 0
    THEN Numeric(ParseU64(part))
    ELSE AlphaNumeric(part)
ParseMeta(s) == LET parts == SplitDots(s, <<>>)
                IN  [i \in DOMAIN parts |-> ParseIdentifier(parts[i])]

\* a numeric identifier at the start of s: "0", or a run of digits that
\* fits the integer; [ok, val, len]
NumericIdentifier(s) ==
    IF s = <<>> \/ ~IsDigit(s[1]) THEN [ok |-> FALSE, val |-> 0, len |-> 0]
    ELSE IF s[1] = "0" THEN [ok |-> TRUE, val |-> 0, len |-> 1]
    ELSE LET n == DigitRunLen(s)
             v == ParseU64(Take(s, n))
         IN  IF v < 0 THEN [ok |-> FALSE, val |-> 0, len |-> 0]
             ELSE [ok |-> TRUE, val |-> v, len |-> n]

\* an optional "-pre" or "+build" section at the start of s; [ok, ids, len]
ParseOptionalMeta(s, prefixChar) ==
    IF s # <<>> /\ s[1] = prefixChar
    THEN LET n == MetaRunLen(Drop(s, 1))
         IN  IF n = 0 THEN [ok |-> FALSE, ids |-> <<>>, len |-> 0]
             ELSE [ok |-> TRUE, ids |-> ParseMeta(SubSeq(s, 2, n + 1)), len |-> n + 1]
    ELSE [ok |-> TRUE, ids |-> <<>>, len |-> 0]

ParseOk(v) == [ok |-> TRUE, v |-> v, err |-> ""]
ParseErr(msg) == [ok |-> FALSE, v |-> NoVersion, err |-> msg]

\* the parse of a trimmed text: MAJOR.MINOR.PATCH[-PRE][+BUILD], nothing
\* after it
ParseTrimmed(s) ==
    LET ma == NumericIdentifier(s)
        s1 == Drop(s, ma.len)
        mi == NumericIdentifier(Drop(s1, 1))
        s2 == Drop(s1, 1 + mi.len)
        pa == NumericIdentifier(Drop(s2, 1))
        s3 == Drop(s2, 1 + pa.len)
        pre == ParseOptionalMeta(s3, "-")
        s4 == Drop(s3, pre.len)
        build == ParseOptionalMeta(s4, "+")
        s5 == Drop(s4, build.len)
    IN  IF ~ma.ok THEN ParseErr("Error parsing major identifier")
        ELSE IF s1 = <<>> \/ s1[1] # "." THEN ParseErr("Expected dot")
        ELSE IF ~mi.ok THEN ParseErr("Error parsing minor identifier")
        ELSE IF s2 = <<>> \/ s2[1] # "." THEN ParseErr("Expected dot")
        ELSE IF ~pa.ok THEN ParseErr("Error parsing patch identifier")
        ELSE IF ~pre.ok THEN ParseErr("Error parsing prerelease")
        ELSE IF ~build.ok THEN ParseErr("Error parsing prerelease")
        ELSE IF s5 # <<>> THEN ParseErr("Extra junk after valid version")
        ELSE ParseOk([major |-> ma.val, minor |-> mi.val, patch |-> pa.val,
                      pre |-> pre.ids, build |-> build.ids])

\* Version::parse (the text is trimmed first; it is bound through a
\* one-element set so that it is computed once)
VersionParse(text) == CHOOSE r \in { ParseTrimmed(s) : s \in {Trim(text)} } : TRUE

\* Display for Identifier and Version
FmtIdentifier(id) == IF id.kind = "Numeric" THEN FmtU64(id.n) ELSE id.s
FmtMeta(ids) == JoinDots([i \in DOMAIN ids |-> FmtIdentifier(ids[i])])
FmtVersion(v) ==
    FmtU64(v.major) \o <<".">> \o FmtU64(v.minor) \o <<".">> \o FmtU64(v.patch)
    \o (IF v.pre = <<>> THEN <<>> ELSE <<"-">> \o FmtMeta(v.pre))
    \o (IF v.build = <<>> THEN <<>> ELSE <<"+">> \o FmtMeta(v.build))

\* orderings are -1 (Less), 0 (Equal), 1 (Greater)
IntCmp(a, b) == IF a < b THEN -1 ELSE IF a > b THEN 1 ELSE 0

\* Ord for String: byte-wise lexicographic
RECURSIVE StrCmp(_, _)
StrCmp(a, b) ==
    IF a = <<>> /\ b = <<>> THEN 0
    ELSE IF a = <<>> THEN -1
    ELSE IF b = <<>> THEN 1
    ELSE IF Code(a[1]) # Code(b[1]) THEN IntCmp(Code(a[1]), Code(b[1]))
    ELSE StrCmp(Drop(a, 1), Drop(b, 1))

\* derived Ord for Identifier: Numeric before AlphaNumeric
IdentifierCmp(a, b) ==
    IF a.kind = "Numeric" /\ b.kind = "Numeric" THEN IntCmp(a.n, b.n)
    ELSE IF a.kind = "Numeric" THEN -1
    ELSE IF b.kind = "Numeric" THEN 1
    ELSE StrCmp(a.s, b.s)

\* Ord for Vec<Identifier>: lexicographic
RECURSIVE IdentifiersCmp(_, _)
IdentifiersCmp(a, b) ==
    IF a = <<>> /\ b = <<>> THEN 0
    ELSE IF a = <<>> THEN -1
    ELSE IF b = <<>> THEN 1
    ELSE IF IdentifierCmp(a[1], b[1]) # 0 THEN IdentifierCmp(a[1], b[1])
    ELSE IdentifiersCmp(Drop(a, 1), Drop(b, 1))

\* Ord for Version: major, minor, patch, then pre; build is ignored
VersionCmp(a, b) ==
    IF a.major # b.major THEN IntCmp(a.major, b.major)
    ELSE IF a.minor # b.minor THEN IntCmp(a.minor, b.minor)
    ELSE IF a.patch # b.patch THEN IntCmp(a.patch, b.patch)
    ELSE IF a.pre = <<>> /\ b.pre = <<>> THEN 0
    ELSE IF a.pre = <<>> THEN 1
    ELSE IF b.pre = <<>> THEN -1
    ELSE IdentifiersCmp(a.pre, b.pre)

\* slice::sort: a stable sort by VersionCmp
RECURSIVE InsertSorted(_, _)
InsertSorted(sorted, v) ==
    IF sorted = <<>> THEN <<v>>
    ELSE IF VersionCmp(v, sorted[Len(sorted)]) >= 0 THEN Append(sorted, v)
    ELSE Append(InsertSorted(Take(sorted, Len(sorted) - 1), v), sorted[Len(sorted)])
RECURSIVE SortFrom(_, _)
SortFrom(sorted, rest) ==
    IF rest = <<>> THEN sorted
    ELSE SortFrom(InsertSorted(sorted, rest[1]), Drop(rest, 1))
SortVersions(vs) == SortFrom(<<>>, vs)

\* u64 += 1 in a build without overflow checks
WrappingInc(n) == (n + 1) % Pow2(NumBits)

\* Version::increment_major / increment_minor / increment_patch
IncrementMajor(v) ==
    [major |-> WrappingInc(v.major), minor |-> 0, patch |-> 0, pre |-> <<>>, build |-> <<>>]
IncrementMinor(v) ==
    [major |-> v.major, minor |-> WrappingInc(v.minor), patch |-> 0, pre |-> <<>>, build |-> <<>>]
IncrementPatch(v) ==
    [major |-> v.major, minor |-> v.minor, patch |-> WrappingInc(v.patch),
     pre |-> <<>>, build |-> <<>>]
\* the component `level` increments
BumpedField(v, level) ==
    IF level = "Major" THEN v.major ELSE IF level = "Minor" THEN v.minor ELSE v.patch
\* the addition overflows: a panic in a build with overflow checks
IncrementOverflows(v, level) == BumpedField(v, level) = MaxU64
\* the match on the bump level, lib.rs 102-106 and main.rs 53-57
ApplyBump(v, level) ==
    IF level = "Major" THEN IncrementMajor(v)
    ELSE IF level = "Minor" THEN IncrementMinor(v)
    ELSE IncrementPatch(v)

\* ------------------------------------------------------------- repository

\* Option<String>
None == [some |-> FALSE, s |-> <<>>]
Some(s) == [some |-> TRUE, s |-> s]
UnwrapOr(o, d) == IF o.some THEN o.s ELSE d

\* Config::default().prefix
DefaultPrefix == Some(<<"v">>)
\* the prefixes a Config is built with
ConfigPrefixes == {DefaultPrefix, None}
\* the values of --pattern: its default, and a pattern matching every tag
DefaultPattern == <<"v", "*">>
Patterns == {DefaultPattern, <<"*">>}

\* the tag whose three numbers are the largest the integer holds
MaxTag == <<"v">> \o FmtU64(MaxU64) \o <<".">> \o FmtU64(MaxU64) \o <<".">> \o FmtU64(MaxU64)

\* the tag names a repository may hold when the run starts
TagUniverse ==
    { <<"v", "1", ".", "2", ".", "0">>,
      <<"x", "y", "z">>,
      <<"v", "1", ".", "2", ".", "3", "-", "r", "c", "1">>,
      <<"v", "1", ".", "2", ".", "3">>,
      <<"v", "1", ".", "2", ".", "0", "+", "b">>,
      <<"v", "v", "1", ".", "0", ".", "0">>,
      <<"1", ".", "0", ".", "0">>,
      <<"v", BadByte>>,
      MaxTag }

\* the commits tags point at: an older commit, and the commit HEAD is at
OldCommit == "c0"
HeadCommit == "c1"

\* the fnmatch of git_tag_list_match: literal characters and "*"
RECURSIVE GlobMatch(_, _)
GlobMatch(pat, name) ==
    IF pat = <<>> THEN name = <<>>
    ELSE IF pat[1] = "*"
         THEN GlobMatch(Drop(pat, 1), name)
              \/ (name # <<>> /\ GlobMatch(pat, Drop(name, 1)))
    ELSE name # <<>> /\ name[1] = pat[1] /\ GlobMatch(Drop(pat, 1), Drop(name, 1))

\* every order in which the names of a set can be listed
RECURSIVE Orders(_)
Orders(S) ==
    IF S = {} THEN {<<>>}
    ELSE UNION { { <<x>> \o rest : rest \in Orders(S \ {x}) } : x \in S }

\* Repository::tag_names(pattern): the names matching the pattern (all names
\* when there is none), in the order the reference store lists them
TagNames(refs, pattern) ==
    Orders({ n \in DOMAIN refs : ~pattern.some \/ GlobMatch(pattern.s, n) })

\* iter().flatten().map(trim_start_matches).map(Version::parse): the parse
\* result of every name that is UTF-8, in order
RECURSIVE ParseEach(_, _)
ParseEach(tags, strip) ==
    IF tags = <<>> THEN <<>>
    ELSE IF ~IsUtf8(tags[1]) THEN ParseEach(Drop(tags, 1), strip)
    ELSE <<VersionParse(TrimStartMatches(tags[1], strip))>> \o ParseEach(Drop(tags, 1), strip)

IsOk(r) == r.ok
IsErr(r) == ~r.ok
\* partition(is_ok), then unwrap and unwrap_err
Partition(results) ==
    [versions |-> [i \in DOMAIN SelectSeq(results, IsOk) |-> SelectSeq(results, IsOk)[i].v],
     errs |-> [i \in DOMAIN SelectSeq(results, IsErr) |-> SelectSeq(results, IsErr)[i].err]]

\* the body shared by Bumper::parse_tags and parse_tags
ParseTagsWith(tags, strip) ==
    CHOOSE p \in { Partition(results) : results \in {ParseEach(tags, strip)} } : TRUE

\* Bumper::parse_tags strips self.prefix, or nothing when there is none
BumperParseTags(tags, pfx) == ParseTagsWith(tags, UnwrapOr(pfx, <<>>))
\* parse_tags strips "v"
ParseTags(tags) == ParseTagsWith(tags, <<"v">>)

\* the name create_tag gives the tag, and the name in the ref-spec of push_tag
TagName(v) == <<"v">> \o FmtVersion(v)
RefSpecName(v) == <<"v">> \o FmtVersion(v)

\* ------------------------------------------------------------------ input

\* the lines the operator may type; each read of an empty buffer takes one
InputLines ==
    { <<"1", "\n">>, <<"2", "\n">>, <<"3", "\n">>, <<" ", "2", " ", "\n">>,
      <<"x", "\n">>, <<"1", "y", "\n">>,
      <<"y", "\n">>, <<" ", "Y", "e", "s", " ", "\n">>,
      <<"n", "\n">>, <<"N", "\n">>, <<"n", "o", "\n">>, <<"N", "o", "\n">>,
      <<"n", "O", "\n">>, <<"N", "O", "\n">>,
      <<"\n">>,
      <<BadByte, "\n">> }
\* end of input
Eof == <<>>

\* the text a bump-level prompt accepts, and the level it stands for
LevelOf(sel) == IF sel = <<"1">> THEN "Major" ELSE IF sel = <<"2">> THEN "Minor" ELSE "Patch"
IsSelection(sel) == sel \in {<<"1">>, <<"2">>, <<"3">>}

\* ------------------------------------------------------------ credentials

\* git2::CredentialType: the credential types a remote may accept
UserPassPlaintext == "USER_PASS_PLAINTEXT"
SshKey == "SSH_KEY"
Username == "USERNAME"
\* the sets of types a credential request may come with: HTTP basic
\* authentication, SSH with the user in the URL, both, and SSH asking for
\* the user name first
AllowedTypeSets ==
    { {UserPassPlaintext}, {SshKey}, {UserPassPlaintext, SshKey}, {Username} }

\* no credential requested yet, and the callback returning an error
NoCred == "none"
CredError == "Err"

\* the credentials callback, lib.rs 264-279: with USER_PASS_PLAINTEXT allowed
\* the credential helper is asked, and when it fails a fixed user and
\* password are returned; otherwise the key of the SSH agent is returned
CredentialsCallback(allowedTypes, helperOk, agentOk) ==
    IF UserPassPlaintext \in allowedTypes
    THEN IF ~helperOk
         THEN [tried |-> <<"credential_helper", "userpass_plaintext">>,
               cred |-> UserPassPlaintext]
         ELSE [tried |-> <<"credential_helper">>, cred |-> UserPassPlaintext]
    ELSE [tried |-> <<"ssh_key_from_agent">>,
          cred |-> IF agentOk THEN SshKey ELSE CredError]

\* ------------------------------------------------------------------ state

VARIABLES
    entry,      \* the workflow: "bump" (Config::bump, which run calls) or "_run"
    prefix,     \* Config.prefix / Bumper.prefix
    args,       \* the parsed command line of _run
    tagRefs,    \* refs/tags of the repository: name -> commit
    headBranch, \* HEAD references a branch (FALSE: detached)
    stdin,      \* the unread rest of the line standard input has buffered
    eof,        \* standard input has reached its end
    pc,         \* the position of the workflow
    tags,       \* the names tag_names returned (their order is used up by the sort)
    versions,   \* the parsed versions, sorted once discovery is over
    errs,       \* the parse errors
    current,    \* versions.last()
    level,      \* the bump level chosen
    bumped,     \* the bumped version
    prompts,    \* how often a bump-level prompt was shown (stops at MaxPrompts)
    answer,     \* the input the confirmation read from
    confirmed,  \* the outcome of the confirmation: "none", "yes", "no", "unexpected"
    out,        \* the kinds of message written
    result,     \* "none", "Ok", "Err" or "panic"
    err,        \* the error returned
    created,    \* the tag names this run created
    pushed,     \* the ref-specs this run pushed: [src, dst]
    selected,   \* the input the bump-level prompt read last
    allowed,    \* allowed_types of the credential request in progress
    tried,      \* the git2::Cred constructors the callback called, in order
    cred        \* what the callback returned: a credential type or CredError

vars == <<entry, prefix, args, tagRefs, headBranch, stdin, eof, pc, tags, versions,
          errs, current, level, bumped, prompts, answer, confirmed, out, result, err,
          created, pushed, selected, allowed, tried, cred>>

NoArgs == [pattern |-> DefaultPattern, interactive |-> FALSE,
           major |-> FALSE, minor |-> FALSE, patch |-> FALSE]
FlagCount(a) ==
    Cardinality({f \in {"interactive", "major", "minor", "patch"} : a[f]})
\* clap: --pattern takes a value, the other flags are present or absent
ParseArgs == { a \in [pattern : Patterns, interactive : BOOLEAN,
                      major : BOOLEAN, minor : BOOLEAN, patch : BOOLEAN] :
               FlagCount(a) <= MaxFlags }

Init ==
    /\ entry \in {"bump", "_run"}
    /\ IF entry = "bump"
       THEN prefix \in ConfigPrefixes /\ args = NoArgs
       ELSE prefix = None /\ args \in ParseArgs
    /\ \E names \in SUBSET TagUniverse :
          /\ Cardinality(names) <= MaxTags
          /\ tagRefs = [n \in names |-> OldCommit]
    /\ headBranch \in BOOLEAN
    /\ stdin = <<>>
    /\ eof = FALSE
    /\ pc = "start"
    /\ tags = {}
    /\ versions = <<>>
    /\ errs = <<>>
    /\ current = NoVersion
    /\ level = "none"
    /\ bumped = NoVersion
    /\ prompts = 0
    /\ answer = <<>>
    /\ confirmed = "none"
    /\ out = {}
    /\ result = "none"
    /\ err = ""
    /\ created = {}
    /\ pushed = {}
    /\ selected = <<>>
    /\ allowed = {}
    /\ tried = <<>>
    /\ cred = NoCred

\* the workflow returns
Return(res, e) == pc' = "done" /\ result' = res /\ err' = e

\* the pattern tag_names is given
BumperPattern(pfx) == IF pfx.some THEN Some(pfx.s \o <<"*">>) ELSE None
DiscoveryPattern == IF entry = "bump" THEN BumperPattern(prefix) ELSE Some(args.pattern)

\* Config::build (lib.rs 43-54) and the start of _run (main.rs 16-22): the
\* repository is opened, or the error of Repository::open is returned
Open ==
    /\ pc = "start"
    /\ \E opened \in BOOLEAN :
          IF opened
          THEN pc' = "discover" /\ UNCHANGED <<result, err>>
          ELSE Return("Err", "repository not found")
    /\ UNCHANGED <<entry, prefix, args, tagRefs, headBranch, stdin, eof, tags, versions,
                   errs, current, level, bumped, prompts, answer, confirmed, out, created,
                   pushed>>
    /\ UNCHANGED <<selected, allowed, tried, cred>>

NoneVersion == [some |-> FALSE, v |-> NoVersion]
SomeVersion(v) == [some |-> TRUE, v |-> v]

\* VersionsLast gone wrong: the first element is taken
VersionsFirst(sorted) == IF sorted = <<>> THEN NoneVersion ELSE SomeVersion(sorted[1])
\* versions.last(): None for an empty list
VersionsLast(sorted) == IF sorted = <<>> THEN NoneVersion ELSE SomeVersion(sorted[Len(sorted)])

\* FoundCurrent gone wrong: the None arm is never taken
FoundCurrentAlways(last) == TRUE
\* the match on versions.last(), lib.rs 88-99 and main.rs 29-35: Some(v)
FoundCurrent(last) == last.some

\* Bumper::bump, lib.rs 70-99, and _run, main.rs 23-35: list the tags, parse
\* them, warn about the malformed ones, sort, take the last as current; with
\* no version, report it and return Ok
Discover ==
    /\ pc = "discover"
    /\ \E listed \in TagNames(tagRefs, DiscoveryPattern) :
       \E parsed \in {IF entry = "bump" THEN BumperParseTags(listed, prefix)
                      ELSE ParseTags(listed)} :
       \E sorted \in {SortVersions(parsed.versions)} :
       \E last \in {VersionsLast(sorted)} :
              /\ tags' = Range(listed)
              /\ versions' = sorted
              /\ errs' = parsed.errs
              /\ IF FoundCurrent(last)
                 THEN /\ current' = last.v
                      /\ pc' = IF entry = "bump" THEN "prompt" ELSE "level"
                      /\ out' = out \cup (IF parsed.errs # <<>> THEN {"warn malformed"} ELSE {})
                      /\ UNCHANGED <<result, err>>
                 ELSE /\ current' = current
                      /\ out' = out \cup {"version tag not found"}
                                    \cup (IF parsed.errs # <<>> THEN {"warn malformed"} ELSE {})
                      /\ Return("Ok", "")
    /\ UNCHANGED <<entry, prefix, args, tagRefs, headBranch, stdin, eof, level, bumped,
                   prompts, answer, confirmed, created, pushed>>
    /\ UNCHANGED <<selected, allowed, tried, cred>>

\* _run, main.rs 37-50: with --interactive the prompt is shown; otherwise the
\* first of --major, --minor, --patch present gives the level, and with none
\* of them the prompt is shown
SelectLevel ==
    /\ pc = "level"
    /\ IF args.interactive THEN pc' = "prompt" /\ level' = level
       ELSE IF args.major THEN pc' = "increment" /\ level' = "Major"
       ELSE IF args.minor THEN pc' = "increment" /\ level' = "Minor"
       ELSE IF args.patch THEN pc' = "increment" /\ level' = "Patch"
       ELSE pc' = "prompt" /\ level' = level
    /\ UNCHANGED <<entry, prefix, args, tagRefs, headBranch, stdin, eof, tags, versions,
                   errs, current, bumped, prompts, answer, confirmed, out, result, err,
                   created, pushed>>
    /\ UNCHANGED <<selected, allowed, tried, cred>>

\* the prompt of this workflow takes a level from the start of the line
Accepted(l) == IF entry = "bump" THEN IsSelection(<<l[1]>>) ELSE IsSelection(Trim(l))

\* what a read finds in standard input: the buffered rest of a line, or the
\* next line the operator types, or the end of input. A line no prompt
\* accepts is typed only while fewer than MaxPrompts prompts were shown.
Incoming ==
    IF eof THEN {Eof}
    ELSE IF stdin # <<>> THEN {stdin}
    ELSE {Eof} \cup { l \in InputLines :
                        prompts < MaxPrompts \/ pc # "prompt" \/ Accepted(l) }

ShowPrompt == IF prompts < MaxPrompts THEN prompts + 1 ELSE prompts

\* one turn of the loop of Bumper::prompt_bump, lib.rs 131-147, with
\* read_char, lib.rs 174-182: the menu is written, one byte is read (a panic
\* at the end of input), and 1, 2, 3 select the level
PromptChar ==
    /\ pc = "prompt"
    /\ entry = "bump"
    /\ prompts' = ShowPrompt
    /\ \E src \in Incoming :
          IF src = Eof
          THEN /\ eof' = TRUE
               /\ stdin' = stdin
               /\ level' = level
               /\ selected' = selected
               /\ out' = out \cup {"menu"}
               /\ Return("panic", "read input failed")
          ELSE /\ eof' = eof
               /\ stdin' = Drop(src, 1)
               /\ selected' = <<src[1]>>
               /\ UNCHANGED <<result, err>>
               /\ IF IsSelection(<<src[1]>>)
                  THEN /\ level' = LevelOf(<<src[1]>>)
                       /\ out' = out \cup {"menu"}
                       /\ pc' = "increment"
                  ELSE /\ level' = level
                       /\ out' = out \cup {"menu", "unexpect input"}
                       /\ pc' = pc
    /\ UNCHANGED <<entry, prefix, args, tagRefs, headBranch, tags, versions, errs,
                   current, bumped, answer, confirmed, created, pushed>>
    /\ UNCHANGED <<allowed, tried, cred>>

\* BufRead::read_line: an error for a line that is not UTF-8
ReadLineFails(src) == ~IsUtf8(src)
ReadLineError == "stream did not contain valid UTF-8"

\* one turn of the loop of prompt_bump, lib.rs 199-226: the menu is written,
\* one line is read (empty at the end of input; an error, which is returned,
\* when it is not UTF-8) and trimmed, and 1, 2, 3 select the level
PromptLine ==
    /\ pc = "prompt"
    /\ entry = "_run"
    /\ prompts' = ShowPrompt
    /\ \E src \in Incoming :
          /\ eof' = (src = Eof)
          /\ stdin' = <<>>
          /\ IF ReadLineFails(src)
             THEN /\ level' = level
                  /\ selected' = selected
                  /\ out' = out \cup {"menu"}
                  /\ Return("Err", ReadLineError)
             ELSE /\ selected' = Trim(src)
                  /\ UNCHANGED <<result, err>>
                  /\ IF IsSelection(Trim(src))
                     THEN /\ level' = LevelOf(Trim(src))
                          /\ out' = out \cup {"menu"}
                          /\ pc' = "increment"
                     ELSE /\ level' = level
                          /\ out' = out \cup {"menu", "unexpect input"}
                          /\ pc' = pc
    /\ UNCHANGED <<entry, prefix, args, tagRefs, headBranch, tags, versions, errs,
                   current, bumped, answer, confirmed, created, pushed>>
    /\ UNCHANGED <<allowed, tried, cred>>

\* lib.rs 101-106 and main.rs 52-57: current is cloned and incremented at the
\* level chosen. At the largest value the addition panics in a build with
\* overflow checks and wraps in one without.
Increment ==
    /\ pc = "increment"
    /\ \E overflowChecks \in BOOLEAN :
          IF IncrementOverflows(current, level) /\ overflowChecks
          THEN /\ bumped' = bumped
               /\ Return("panic", "attempt to add with overflow")
          ELSE /\ bumped' = ApplyBump(current, level)
               /\ pc' = "confirm"
               /\ UNCHANGED <<result, err>>
    /\ UNCHANGED <<entry, prefix, args, tagRefs, headBranch, stdin, eof, tags, versions,
                   errs, current, level, prompts, answer, confirmed, out, created, pushed>>
    /\ UNCHANGED <<selected, allowed, tried, cred>>

\* lib.rs 171: the byte read, lowercased, is y
IsYesChar(c) == CharLower(c) = "y"

\* Bumper::confirm_bump, lib.rs 149-172, and the end of Bumper::bump, lib.rs
\* 108-113: the name of the branch HEAD references is asked for (an error
\* when HEAD is detached), branch, commit and the bump are written, one byte
\* is read; unless it is y or Y "canceled" is written; Ok is returned
ConfirmChar ==
    /\ pc = "confirm"
    /\ entry = "bump"
    /\ IF ~headBranch
       THEN /\ Return("Err", "reference 'HEAD' is neither a local nor a remote branch")
            /\ UNCHANGED <<stdin, eof, answer, confirmed, out>>
       ELSE \E src \in Incoming :
               /\ answer' = src
               /\ IF src = Eof
                  THEN /\ eof' = TRUE
                       /\ stdin' = stdin
                       /\ confirmed' = confirmed
                       /\ out' = out \cup {"confirm prompt"}
                       /\ Return("panic", "read input failed")
                  ELSE /\ eof' = eof
                       /\ stdin' = Drop(src, 1)
                       /\ IF IsYesChar(src[1])
                          THEN /\ confirmed' = "yes"
                               /\ out' = out \cup {"confirm prompt"}
                          ELSE /\ confirmed' = "no"
                               /\ out' = out \cup {"confirm prompt", "canceled"}
                       /\ Return("Ok", "")
    /\ UNCHANGED <<entry, prefix, args, tagRefs, headBranch, tags, versions, errs,
                   current, level, bumped, prompts, created, pushed>>
    /\ UNCHANGED <<selected, allowed, tried, cred>>

\* Reply gone wrong: the line is not lowercased
ReplyCaseSensitive(line) ==
    LET t == Trim(line)
    IN  IF t \in {<<"y">>, <<"y", "e", "s">>} THEN "yes"
        ELSE IF t \in {<<"n">>, <<"n", "o">>} THEN "no"
        ELSE "unexpected"
\* main.rs 62-69: the line, lowercased and trimmed, is y/yes, n/no or
\* anything else
Reply(line) ==
    LET t == Trim(ToAsciiLowercase(line))
    IN  IF t \in {<<"y">>, <<"y", "e", "s">>} THEN "yes"
        ELSE IF t \in {<<"n">>, <<"n", "o">>} THEN "no"
        ELSE "unexpected"

\* Proceeds gone wrong: every answer goes on to create_tag
ProceedsAlways(reply) == TRUE
\* main.rs 63: the arm of y and yes falls through to create_tag
Proceeds(reply) == reply = "yes"

\* _run, main.rs 58-69: the bump is written, one line is read (an error,
\* which is returned, when it is not UTF-8); y/yes goes on to create_tag,
\* n/no writes "canceled" and returns Ok, anything else is returned as the
\* error
ConfirmLine ==
    /\ pc = "confirm"
    /\ entry = "_run"
    /\ \E src \in Incoming :
          /\ answer' = src
          /\ eof' = (src = Eof)
          /\ stdin' = <<>>
          /\ IF ReadLineFails(src)
             THEN /\ confirmed' = confirmed
                  /\ out' = out \cup {"confirm prompt"}
                  /\ Return("Err", ReadLineError)
             ELSE /\ confirmed' = Reply(src)
                  /\ IF Proceeds(Reply(src))
                     THEN /\ pc' = "create"
                          /\ out' = out \cup {"confirm prompt"}
                          /\ UNCHANGED <<result, err>>
                     ELSE IF Reply(src) = "no"
                     THEN /\ out' = out \cup {"confirm prompt", "canceled"}
                          /\ Return("Ok", "")
                     ELSE /\ out' = out \cup {"confirm prompt"}
                          /\ Return("Err", "unexpected answer")
    /\ UNCHANGED <<entry, prefix, args, tagRefs, headBranch, tags, versions, errs,
                   current, level, bumped, prompts, created, pushed>>
    /\ UNCHANGED <<selected, allowed, tried, cred>>

\* HeadIsBranch gone wrong: the check of HEAD is left out
HeadIsBranchUnchecked(isBranch) == TRUE
\* lib.rs 233: head.is_branch()
HeadIsBranch(isBranch) == isBranch

\* Force gone wrong: an existing tag is replaced
ForceOverwrite == TRUE
\* lib.rs 240: the force argument of repo.tag
Force == FALSE

\* create_tag, lib.rs 228-242, called at main.rs 71: an error unless HEAD is
\* a branch, unless the repository has a signature, and unless no tag of the
\* name exists (force is false); otherwise the tag is created at HEAD
CreateTag ==
    /\ pc = "create"
    /\ \E hasSignature \in BOOLEAN :
          IF ~HeadIsBranch(headBranch)
          THEN /\ Return("Err", "HEAD is not branch!")
               /\ UNCHANGED <<tagRefs, created>>
          ELSE IF ~hasSignature
          THEN /\ Return("Err", "config value 'user.name' was not found")
               /\ UNCHANGED <<tagRefs, created>>
          ELSE IF TagName(bumped) \in DOMAIN tagRefs /\ ~Force
          THEN /\ Return("Err", "tag already exists")
               /\ UNCHANGED <<tagRefs, created>>
          ELSE /\ tagRefs' = [n \in DOMAIN tagRefs \cup {TagName(bumped)} |->
                                IF n = TagName(bumped) THEN HeadCommit ELSE tagRefs[n]]
               /\ created' = created \cup {TagName(bumped)}
               /\ pc' = "push"
               /\ UNCHANGED <<result, err>>
    /\ UNCHANGED <<entry, prefix, args, headBranch, stdin, eof, tags, versions, errs,
                   current, level, bumped, prompts, answer, confirmed, out, pushed>>
    /\ UNCHANGED <<selected, allowed, tried, cred>>

\* PushResult gone wrong: the error of push_tag is dropped
PushResultIgnored(e) == "Ok"
\* main.rs 72-74: an error of push_tag is returned, otherwise Ok
PushResult(e) == IF e = "" THEN "Ok" ELSE "Err"

\* push_tag returns to _run, which returns; the credential request is over
PushReturn(e) ==
    /\ Return(PushResult(e), e)
    /\ allowed' = {}
    /\ tried' = <<>>
    /\ cred' = NoCred

\* the ref-spec is transferred: the reference is updated, or the remote
\* rejects it (push_update_reference reports it, the push returns Ok), or
\* the transport fails
TransferOutcomes == {"pushed", "rejected", "transport error"}
Transfer(outcome) ==
    /\ pushed' = IF outcome = "pushed"
                 THEN pushed \cup {[src |-> RefSpecName(bumped),
                                    dst |-> RefSpecName(bumped)]}
                 ELSE pushed
    /\ out' = IF outcome \in {"pushed", "rejected"}
              THEN out \cup {"push_update_reference"} ELSE out
    /\ PushReturn(IF outcome = "transport error" THEN "transport error" ELSE "")

\* push_tag, lib.rs 244-288, called at main.rs 72: the remote "origin" is
\* looked up and the git configuration opened (the error of either is
\* returned), then the push starts: the remote asks for a credential, or it
\* asks for none and the ref-spec is transferred
PushTag ==
    /\ pc = "push"
    /\ \E start \in {"no origin", "no config", "request", "transfer"} :
          IF start = "no origin"
          THEN PushReturn("remote 'origin' does not exist") /\ UNCHANGED <<pushed, out>>
          ELSE IF start = "no config"
          THEN PushReturn("could not open the git configuration")
               /\ UNCHANGED <<pushed, out>>
          ELSE IF start = "request"
          THEN /\ pc' = "credentials"
               /\ UNCHANGED <<allowed, tried, cred, result, err, pushed, out>>
          ELSE \E outcome \in TransferOutcomes : Transfer(outcome)
    /\ UNCHANGED <<entry, prefix, args, tagRefs, headBranch, stdin, eof, tags, versions,
                   errs, current, level, bumped, prompts, answer, confirmed, created,
                   selected>>

\* the remote asks for a credential of one of the types it accepts: the
\* callback of lib.rs 264-279 runs with them as allowed_types
Credentials ==
    /\ pc = "credentials"
    /\ \E types \in AllowedTypeSets, helperOk \in BOOLEAN, agentOk \in BOOLEAN :
       \E r \in {CredentialsCallback(types, helperOk, agentOk)} :
          /\ allowed' = types
          /\ tried' = r.tried
          /\ cred' = r.cred
    /\ pc' = "authenticate"
    /\ UNCHANGED <<entry, prefix, args, tagRefs, headBranch, stdin, eof, tags, versions,
                   errs, current, level, bumped, prompts, answer, confirmed, out, result,
                   err, created, pushed, selected>>

\* origin.push, lib.rs 285-287, goes on with what the callback returned: its
\* error ends the push, and so does a credential of a type the remote did
\* not ask for; the remote accepts the credential and the ref-spec is
\* transferred, or it refuses the credential and asks again
Authenticate ==
    /\ pc = "authenticate"
    /\ IF cred = CredError
       THEN PushReturn("no credential") /\ UNCHANGED <<pushed, out>>
       ELSE IF cred \notin allowed
       THEN PushReturn("callback returned unsupported credentials type")
            /\ UNCHANGED <<pushed, out>>
       ELSE \E accepted \in BOOLEAN :
               IF accepted
               THEN \E outcome \in TransferOutcomes : Transfer(outcome)
               ELSE /\ allowed' = {}
                    /\ tried' = <<>>
                    /\ cred' = NoCred
                    /\ pc' = "credentials"
                    /\ UNCHANGED <<result, err, pushed, out>>
    /\ UNCHANGED <<entry, prefix, args, tagRefs, headBranch, stdin, eof, tags, versions,
                   errs, current, level, bumped, prompts, answer, confirmed, created,
                   selected>>

Next ==
    \/ Open
    \/ Discover
    \/ SelectLevel
    \/ PromptChar
    \/ PromptLine
    \/ Increment
    \/ ConfirmChar
    \/ ConfirmLine
    \/ CreateTag
    \/ PushTag
    \/ Credentials
    \/ Authenticate

Spec == Init /\ [][Next]_vars

\* create_tag as a function of the library: a caller hands it a version and
\* a repository, and may call it again with the same or another version
ApiVersions ==
    { [major |-> 1, minor |-> 2, patch |-> 0, pre |-> <<>>, build |-> <<>>],
      [major |-> 1, minor |-> 2, patch |-> 1, pre |-> <<>>, build |-> <<>>],
      [major |-> 2, minor |-> 0, patch |-> 0, pre |-> <<>>, build |-> <<>>] }

InitCreateTag ==
    /\ entry = "create_tag"
    /\ prefix = None
    /\ args = NoArgs
    /\ \E names \in SUBSET TagUniverse :
          /\ Cardinality(names) <= MaxTags
          /\ tagRefs = [n \in names |-> OldCommit]
    /\ headBranch \in BOOLEAN
    /\ stdin = <<>>
    /\ eof = FALSE
    /\ pc = "create"
    /\ tags = {}
    /\ versions = <<>>
    /\ errs = <<>>
    /\ current = NoVersion
    /\ level = "none"
    /\ bumped \in ApiVersions
    /\ prompts = 0
    /\ answer = <<>>
    /\ confirmed = "none"
    /\ out = {}
    /\ result = "none"
    /\ err = ""
    /\ created = {}
    /\ pushed = {}
    /\ selected = <<>>
    /\ allowed = {}
    /\ tried = <<>>
    /\ cred = NoCred

\* create_tag has returned (Ok: the position after create_tag) and the
\* caller calls it again
CallAgain ==
    /\ entry = "create_tag"
    /\ pc \in {"push", "done"}
    /\ pc' = "create"
    /\ bumped' \in ApiVersions
    /\ result' = "none"
    /\ err' = ""
    /\ UNCHANGED <<entry, prefix, args, tagRefs, headBranch, stdin, eof, tags, versions,
                   errs, current, level, prompts, answer, confirmed, out, created,
                   pushed, selected, allowed, tried, cred>>

NextCreateTag ==
    \/ CreateTag
    \/ CallAgain

SpecCreateTag == InitCreateTag /\ [][NextCreateTag]_vars

\* main, main.rs 85-92: exit status 1 on an error, 0 otherwise; a panic ends
\* the process with status 101
ExitStatus == IF result = "Err" THEN 1 ELSE IF result = "panic" THEN 101 ELSE 0

\* ------------------------------------------------------------ properties

\* run of main.rs: Config::bump with the default Config
IsMainRun == entry = "bump" /\ prefix = DefaultPrefix
\* tag discovery is over
Discovered == pc \notin {"start", "discover"} /\ err # "repository not found"
\* the bumped version has been computed
Bumped == pc \in {"confirm", "create", "push"} \/ confirmed # "none"
\* the prefix tag discovery was configured with
ConfiguredPrefix ==
    IF entry = "bump" THEN UnwrapOr(prefix, <<>>)
    ELSE Take(args.pattern, Len(args.pattern) - 1)
\* one leading occurrence of the prefix removed, when there is one
StripPrefixOnce(t, p) == IF p # <<>> /\ StartsWith(t, p) THEN Drop(t, Len(p)) ELSE t

\* semantic-version precedence as the semver specification states it
Common(a, b) == IF Len(a) < Len(b) THEN Len(a) ELSE Len(b)
TextBelow(a, b) ==
    \E k \in 1..(Common(a, b) + 1) :
        /\ \A j \in 1..(k - 1) : a[j] = b[j]
        /\ IF k > Len(a) THEN k <= Len(b)
           ELSE k <= Len(b) /\ Code(a[k]) < Code(b[k])
IdBelow(x, y) ==
    IF x.kind = "Numeric" /\ y.kind = "Numeric" THEN x.n < y.n
    ELSE IF x.kind = "Numeric" THEN TRUE
    ELSE IF y.kind = "Numeric" THEN FALSE
    ELSE TextBelow(x.s, y.s)
PreBelow(p, q) ==
    \/ p # <<>> /\ q = <<>>
    \/ /\ p # <<>>
       /\ q # <<>>
       /\ \E k \in 1..(Common(p, q) + 1) :
             /\ \A j \in 1..(k - 1) : p[j] = q[j]
             /\ IF k > Len(p) THEN k <= Len(q)
                ELSE k <= Len(q) /\ IdBelow(p[k], q[k])
Precedes(a, b) ==
    \/ a.major < b.major
    \/ a.major = b.major /\ a.minor < b.minor
    \/ a.major = b.major /\ a.minor = b.minor /\ a.patch < b.patch
    \/ /\ a.major = b.major
       /\ a.minor = b.minor
       /\ a.patch = b.patch
       /\ PreBelow(a.pre, b.pre)

\* C1: every run main starts that found a version tag, read a bump level,
\* read an affirmative confirmation and returned success has created exactly
\* one new tag, named for the bumped version
C1_OneTagPerSuccessfulRun ==
    (/\ IsMainRun
     /\ pc = "done"
     /\ result = "Ok"
     /\ versions # <<>>
     /\ level # "none"
     /\ confirmed = "yes")
    => created = {UnwrapOr(prefix, <<>>) \o FmtVersion(bumped)}

\* C2: every answer to the confirmation that is not affirmative (a negative
\* answer, an empty line, any unrecognised text) ends the workflow with
\* "canceled" written, no tag created, nothing pushed and a success result
\* (exit status 0)
C2_NonAffirmativeCancels ==
    (confirmed \in {"no", "unexpected"} /\ answer # Eof)
    => /\ pc = "done"
       /\ "canceled" \in out
       /\ created = {}
       /\ pushed = {}
       /\ result = "Ok"
       /\ ExitStatus = 0

\* the answers n and no in every letter case
NoAnswers ==
    { <<"n", "\n">>, <<"N", "\n">>, <<"n", "o", "\n">>, <<"N", "o", "\n">>,
      <<"n", "O", "\n">>, <<"N", "O", "\n">> }

C4_NoVersionEndsEarly ==
    /\ pc \in {"level", "prompt", "increment", "confirm", "create", "push"}
          => versions # <<>>
    /\ (Discovered /\ versions = <<>>)
          => /\ pc = "done"
             /\ result = "Ok"
             /\ "version tag not found" \in out
             /\ prompts = 0
             /\ level = "none"
             /\ out \cap {"menu", "confirm prompt", "canceled", "push_update_reference"} = {}
             /\ confirmed = "none"
             /\ created = {}
             /\ pushed = {}

\* C4 witness: discovery listed tags and every one of them was malformed
C4_Witness == Discovered /\ versions = <<>> /\ tags # {} /\ errs # <<>>

\* the tags of the example of C5, and the version 1.2.0
ExampleTags ==
    { <<"v", "1", ".", "0", ".", "0">>, <<"v", "1", ".", "2", ".", "0">>,
      <<"v", "1", ".", "1", ".", "0", "-", "b", "e", "t", "a">>, <<"x", "y", "z">> }
V120 == [major |-> 1, minor |-> 2, patch |-> 0, pre |-> <<>>, build |-> <<>>]

\* C5: the version chosen as current is a maximum of the parsed versions
\* under semver precedence, in whatever order the tags were listed; for the
\* tags v1.0.0, v1.2.0, v1.1.0-beta, xyz and prefix v it is 1.2.0
C5_CurrentIsMaximum ==
    /\ (Discovered /\ versions # <<>>)
          => /\ \E i \in DOMAIN versions : versions[i] = current
             /\ \A i \in DOMAIN versions : ~Precedes(current, versions[i])
             /\ Len(versions) = Cardinality({t \in tags : IsUtf8(t)}) - Len(errs)
    /\ (pc = "start" /\ DOMAIN tagRefs = {})
          => \A o \in Orders(ExampleTags) :
                /\ VersionsLast(SortVersions(BumperParseTags(o, DefaultPrefix).versions))
                      = SomeVersion(V120)
                /\ VersionsLast(SortVersions(ParseTags(o).versions)) = SomeVersion(V120)

\* C5 witness: a release and a pre-release of it were both found, and the
\* release is current
C5_Witness ==
    /\ Discovered
    /\ Len(versions) = 2
    /\ versions[1].pre # <<>>
    /\ current.pre = <<>>
    /\ <<current.major, current.minor, current.patch>>
          = <<versions[1].major, versions[1].minor, versions[1].patch>>

\* C6: for every current version and every bump level, the bumped version
\* is strictly greater than the current version under semver precedence
C6_BumpedIsGreater == Bumped => Precedes(current, bumped)

\* the version (major, minor, patch) with no pre-release and no build
Release(major, minor, patch) ==
    [major |-> major, minor |-> minor, patch |-> patch, pre |-> <<>>, build |-> <<>>]
V123rc1 == [major |-> 1, minor |-> 2, patch |-> 3,
            pre |-> <<AlphaNumeric(<<"r", "c", "1">>)>>, build |-> <<>>]

\* C7: Major gives (major+1, 0, 0), Minor gives (major, minor+1, 0), Patch
\* gives (major, minor, patch+1), each with no pre-release and no build;
\* bump(1.2.3-rc1, Patch) = 1.2.4
C7_BumpArithmetic ==
    /\ Bumped =>
          /\ level = "Major" => bumped = Release(current.major + 1, 0, 0)
          /\ level = "Minor" => bumped = Release(current.major, current.minor + 1, 0)
          /\ level = "Patch" =>
                bumped = Release(current.major, current.minor, current.patch + 1)
    /\ (Bumped /\ current = V123rc1 /\ level = "Patch") => bumped = Release(1, 2, 4)

\* the tags whose remainder, the configured prefix stripped, is or is not
\* valid semver
ValidTags == { t \in tags : VersionParse(StripPrefixOnce(t, ConfiguredPrefix)).ok }
MalformedTags == tags \ ValidTags

\* C8: parse_tags places every listed tag name in exactly one of its two
\* outputs: in the versions, as the version its prefix-stripped remainder
\* denotes, when that is valid semver, and otherwise as one entry of the
\* errors; the two lengths add up to the number of tag names; a malformed
\* tag never makes the workflow return an error
C8_ParseTagsPartitions ==
    Discovered =>
       /\ Len(versions) + Len(errs) = Cardinality(tags)
       /\ Len(versions) = Cardinality(ValidTags)
       /\ Len(errs) = Cardinality(MalformedTags)
       /\ \A t \in ValidTags :
             \E i \in DOMAIN versions :
                versions[i] = VersionParse(StripPrefixOnce(t, ConfiguredPrefix)).v
       /\ (versions = <<>> /\ errs # <<>>) => result = "Ok"

C10_WrittenNameHasConfiguredPrefix ==
    /\ \A n \in created : n = ConfiguredPrefix \o FmtVersion(bumped)
    /\ \A r \in pushed :
          /\ r.src = ConfiguredPrefix \o FmtVersion(bumped)
          /\ r.dst = ConfiguredPrefix \o FmtVersion(bumped)

\* the credential chain as stated: helper, then prompt, then SSH agent, and
\* the credential type each strategy, and each constructor of git2::Cred the
\* callback calls, stands for
ChainOrder == <<"credential_helper", "prompt", "ssh_key_from_agent">>
CredTypeOf(strategy) ==
    IF strategy = "ssh_key_from_agent" THEN SshKey ELSE UserPassPlaintext
Applicable(strategy, types) == CredTypeOf(strategy) \in types
ApplicableChain(types) ==
    SelectSeq(ChainOrder, LAMBDA strategy : Applicable(strategy, types))

\* C11: on every credential request the strategies attempted are the
\* applicable ones of helper, prompt, SSH agent, in that order, each one
\* only after the ones before it failed; the credential returned comes from
\* the last one attempted, and the request fails only with every
\* applicable strategy attempted
C11_ChainInOrder ==
    pc = "authenticate"
    => /\ Len(tried) <= Len(ApplicableChain(allowed))
       /\ tried = Take(ApplicableChain(allowed), Len(tried))
       /\ cred # CredError => tried # <<>>
       /\ cred = CredError => tried = ApplicableChain(allowed)

\* C12: on every credential request the callback attempts only strategies
\* whose credential type the remote accepts
C12_OnlyAllowedStrategies ==
    pc = "authenticate"
    => \A i \in DOMAIN tried : CredTypeOf(tried[i]) \in allowed

\* C13: create_tag called for a version whose tag reference exists returns
\* an error and leaves every tag reference and its target as it was
C13_ExistingTagKept ==
    [][(pc = "create" /\ TagName(bumped) \in DOMAIN tagRefs)
          => /\ tagRefs' = tagRefs
             /\ created' = created
             /\ pc' = "done"
             /\ result' = "Err"]_vars

\* C13 witness: create_tag was called a second time with the version it
\* created a tag for, and returned the error of the existing tag
C13_Witness ==
    /\ entry = "create_tag"
    /\ pc = "done"
    /\ TagName(bumped) \in created
    /\ err = "tag already exists"

\* C14: in _run, when create_tag succeeded and push_tag returned an error,
\* the run is over with that error and a nonzero exit status, nothing was
\* pushed, and the tag create_tag created is still there, at HEAD; no step
\* removes a tag this run created
C14_PushFailureKeepsTag ==
    /\ \A n \in created : n \in DOMAIN tagRefs /\ tagRefs[n] = HeadCommit
    /\ (entry = "_run" /\ created # {} /\ pc = "done" /\ err # "")
          => /\ result = "Err"
             /\ ExitStatus # 0
             /\ pushed = {}
             /\ created = {TagName(bumped)}

\* C14 witness: the tag was created and the push failed for want of a
\* credential
C14_Witness ==
    /\ entry = "_run"
    /\ created # {}
    /\ pc = "done"
    /\ err = "no credential"

\* C15: the bump-level prompt never ends the run because of an input that
\* is not a selection: while it prompts, what it read last was no selection
\* and was reported; a level it returned is the one the selection read last
\* stands for; and with input left and no level chosen the run is not over
C15_PromptLoopsOnInvalid ==
    /\ (pc = "prompt" /\ prompts > 0)
          => /\ ~IsSelection(selected)
             /\ "unexpect input" \in out
             /\ level = "none"
    /\ (level # "none" /\ prompts > 0)
          => /\ IsSelection(selected)
             /\ level = LevelOf(selected)
    /\ (Discovered /\ versions # <<>> /\ level = "none" /\ ~eof) => pc # "done"

\* --major, --minor or --patch is given
LevelFlagGiven == args.major \/ args.minor \/ args.patch

\* C16: in _run, with --major, --minor or --patch given the bump-level
\* prompt is never shown and the level applied is one a flag names; the
\* prompt is shown only with none of them given
C16_FlagBypassesPrompt ==
    entry = "_run"
    => /\ LevelFlagGiven => (prompts = 0 /\ "menu" \notin out)
       /\ (LevelFlagGiven /\ level # "none")
             => \/ level = "Major" /\ args.major
                \/ level = "Minor" /\ args.minor
                \/ level = "Patch" /\ args.patch
       /\ prompts > 0 => ~LevelFlagGiven

\* the prefix each parse_tags strips: self.prefix, and "v"
StripText == IF entry = "bump" THEN UnwrapOr(prefix, <<>>) ELSE <<"v">>

\* C17: the text parse_tags hands to the parser is the tag name with one
\* leading occurrence of the prefix removed, and nothing more: the versions
\* are the tag names that are valid semver after that one removal (with
\* prefix v, vv1.0.0 is parsed as v1.0.0, which is no version)
C17_OnePrefixStripped ==
    Discovered
    => /\ \A t \in tags :
             IsUtf8(t) => TrimStartMatches(t, StripText) = StripPrefixOnce(t, StripText)
       /\ Len(versions) =
             Cardinality({ t \in tags :
                             /\ IsUtf8(t)
                             /\ VersionParse(StripPrefixOnce(t, StripText)).ok })

\* C18: in _run each stage starts only after the one before it and none
\* acts again once a later one started: at every position the later stages
\* have done nothing yet; create_tag is reached only after an affirmative
\* confirmation, push_tag only after create_tag created the tag, and the
\* tag created and the ref-spec pushed name the bumped version confirmed
C18_StagesInOrder ==
    entry = "_run"
    => /\ pc \in {"start", "discover"} => (versions = <<>> /\ level = "none")
       /\ pc \in {"start", "discover", "level", "prompt"}
             => (bumped = NoVersion /\ confirmed = "none")
       /\ pc \in {"start", "discover", "level", "prompt", "increment", "confirm"}
             => (confirmed = "none" /\ created = {} /\ pushed = {})
       /\ pc \in {"increment", "confirm"} => level # "none"
       /\ pc = "create" => (confirmed = "yes" /\ created = {} /\ pushed = {})
       /\ pc \in {"push", "credentials", "authenticate"}
             => (confirmed = "yes" /\ created = {TagName(bumped)} /\ pushed = {})
       /\ created # {} => (confirmed = "yes" /\ created = {TagName(bumped)})
       /\ pushed # {}
             => /\ pc = "done"
                /\ created = {TagName(bumped)}
                /\ pushed = {[src |-> RefSpecName(bumped), dst |-> RefSpecName(bumped)]}
       /\ Bumped => bumped = ApplyBump(current, level)

\* C18 witness: a run of _run went through every stage and pushed the tag
C18_Witness ==
    /\ entry = "_run"
    /\ pc = "done"
    /\ result = "Ok"
    /\ prompts > 0
    /\ pushed # {}

\* C19: in Bumper::bump the confirmation reads the operator's answer to it:
\* the newline that ends the selection line is not left for the
\* confirmation to read
C19_ConfirmationReadsAnswer ==
    (entry = "bump" /\ pc = "confirm") => stdin # <<"\n">>

\* C20: once the input is at its end with no level selected, the bump-level
\* prompt has stopped and the run has returned an error: it neither goes on
\* prompting nor panics
C20_PromptStopsAtEndOfInput ==
    (Discovered /\ versions # <<>> /\ eof /\ level = "none")
    => (pc = "done" /\ result = "Err")

====
